---- MODULE Spec2Model ----
(***************************************************************************)
(* BERTClassifier (texar/modules/classifiers/bert_classifier.py).          *)
(*                                                                         *)
(* A tensor is a record [shape, data]: its shape and its elements in       *)
(* row-major order, so that view, flatten and squeeze change the shape and *)
(* keep the data, as they do in torch.  The encoder is an external         *)
(* collaborator; it is modelled as a fixed function of the token ids.      *)
(***************************************************************************)
EXTENDS Integers, Sequences, FiniteSets, TLC

VARIABLES hparams, built, logits_layer, is_binary, training, fwd, query

vars == <<hparams, built, logits_layer, is_binary, training, fwd, query>>

\* ---- bounds ----
MaxClasses == 2
MaxSeqLen == 2
MaxDim == 2
MaxBatch == 2
MaxTime == 2

\* hparams.dropout = 0.5, so that a kept element is scaled by 1/(1-0.5)
DropoutScale == 2

\* ---- tensors ----
NoTensor == [shape |-> <<>>, data |-> <<>>]

Last(s) == s[Len(s)]

Front(s) == SubSeq(s, 1, Len(s) - 1)

\* ---- the encoder (external collaborator) ----
EncFeature(tok, t, f) == ((2 * tok + t + f) % 3) - 1

PoolFeature(tok, f) == ((tok + 2 * f) % 3) - 1

\* self._encoder.output_size
EncoderOutputSize(hp) == hp.dim

\* self._encoder(inputs, sequence_length, segment_ids)
Encode(hp, inputs) ==
    LET B == inputs.shape[1]
        T == inputs.shape[2]
        F == hp.dim
    IN  [enc_outputs |->
            [shape |-> <<B, T, F>>,
             data  |-> [k \in 1..(B * T * F) |->
                          EncFeature(inputs.data[((k - 1) \div F) + 1],
                                     (((k - 1) \div F) % T) + 1,
                                     ((k - 1) % F) + 1)]],
         pooled_output |->
            [shape |-> <<B, F>>,
             data  |-> [k \in 1..(B * F) |->
                          PoolFeature(inputs.data[((k - 1) \div F) * T + 1],
                                      ((k - 1) % F) + 1)]]]

\* ---- torch primitives ----
\* mutant of PadTime: the zero time steps are put before the outputs
PadTimeFront(x, d) ==
    LET B  == x.shape[1]
        T  == x.shape[2]
        F  == x.shape[3]
        T2 == T + d
    IN  [shape |-> <<B, T2, F>>,
         data  |-> [k \in 1..(B * T2 * F) |->
                      LET b == (k - 1) \div (T2 * F)
                          t == ((k - 1) \div F) % T2
                          f == (k - 1) % F
                      IN  IF t >= d /\ t - d < T
                          THEN x.data[b * T * F + (t - d) * F + f + 1]
                          ELSE 0]]

\* F.pad(x, [0, 0, 0, d, 0, 0]) on a [B, T, F] tensor: d >= 0 appends d zero
\* time steps to every batch row, d < 0 removes the last -d time steps.
PadTime(x, d) ==
    LET B  == x.shape[1]
        T  == x.shape[2]
        F  == x.shape[3]
        T2 == T + d
    IN  [shape |-> <<B, T2, F>>,
         data  |-> [k \in 1..(B * T2 * F) |->
                      LET b == (k - 1) \div (T2 * F)
                          t == ((k - 1) \div F) % T2
                          f == (k - 1) % F
                      IN  IF t < T THEN x.data[b * T * F + t * F + f + 1]
                                   ELSE 0]]

\* x.view(-1, n)
View(x, n) == [shape |-> <<Len(x.data) \div n, n>>, data |-> x.data]

\* torch.flatten(x)
Flatten(x) == [shape |-> <<Len(x.data)>>, data |-> x.data]

\* mutant of Squeeze: the singleton class dimension is kept
SqueezeNothing(x) == x

\* torch.squeeze(x, -1)
Squeeze(x) ==
    IF Len(x.shape) > 0 /\ Last(x.shape) = 1
    THEN [shape |-> Front(x.shape), data |-> x.data]
    ELSE x

\* (x > 0).long()
GreaterThanZero(x) ==
    [shape |-> x.shape,
     data  |-> [k \in 1..Len(x.data) |-> IF x.data[k] > 0 THEN 1 ELSE 0]]

\* mutant of ArgmaxRow: the index of the first minimal value
ArgminRow(data, r, n) ==
    LET base == (r - 1) * n
        best == CHOOSE i \in 1..n :
                   /\ \A j \in 1..n : data[base + j] >= data[base + i]
                   /\ \A j \in 1..(i - 1) : data[base + j] > data[base + i]
    IN  best - 1

\* index (0-based) of the first maximal value of row r of width n
ArgmaxRow(data, r, n) ==
    LET base == (r - 1) * n
        best == CHOOSE i \in 1..n :
                   /\ \A j \in 1..n : data[base + j] <= data[base + i]
                   /\ \A j \in 1..(i - 1) : data[base + j] < data[base + i]
    IN  best - 1

\* torch.argmax(x, dim=-1)
Argmax(x) ==
    LET n == Last(x.shape)
    IN  [shape |-> Front(x.shape),
         data  |-> [r \in 1..(Len(x.data) \div n) |-> ArgmaxRow(x.data, r, n)]]

\* The drop masks of nn.Dropout.  In evaluation mode no mask is drawn (0);
\* in training mode the mask is random: 1 keeps every element, 2 drops the
\* elements at odd positions.
TrainingMasks == {1, 2}

\* mutant of DropoutMasks: a mask is drawn in evaluation mode too
DropoutMasksAlways(train) == TrainingMasks

DropoutMasks(train) == IF train THEN TrainingMasks ELSE {0}

Keep(mask, k) == mask = 1 \/ k % 2 = 0

\* nn.Dropout: the identity in evaluation mode; in training mode a dropped
\* element becomes 0 and a kept one is scaled by 1/(1-p).
Dropout(x, mask) ==
    IF mask = 0
    THEN x
    ELSE [shape |-> x.shape,
          data  |-> [k \in 1..Len(x.data) |->
                       IF Keep(mask, k) THEN x.data[k] * DropoutScale ELSE 0]]

\* the weights nn.Linear draws at construction, as a function of a seed
Seeds == {0, 1}

Weight(seed, c, i) == ((c + i + seed) % 3) - 1

Bias(layer, c) == IF layer.bias THEN ((c + layer.seed) % 2) ELSE 0

RECURSIVE Dot(_, _, _, _, _)
Dot(layer, c, data, base, i) ==
    IF i = 0 THEN 0
    ELSE Weight(layer.seed, c, i) * data[base + i]
         + Dot(layer, c, data, base, i - 1)

\* nn.Linear applied to the last dimension
Linear(x, layer) ==
    LET nin  == layer.in_features
        nout == layer.out_features
        rows == Len(x.data) \div nin
    IN  [shape |-> Front(x.shape) \o <<nout>>,
         data  |-> [k \in 1..(rows * nout) |->
                      LET r == (k - 1) \div nout
                          c == ((k - 1) % nout) + 1
                      IN  Dot(layer, c, x.data, r * nin, nin) + Bias(layer, c)]]

\* ---- hyperparameters ----
Strategies == {"cls_time", "all_time", "time_wise", "nearest_time"}

\* max_seq_length: <<>> is None, <<n>> is the integer n
SeqLengths == {<<>>} \cup {<<n>> : n \in 1..MaxSeqLen}

\* logit_layer_kwargs: None, a dict ({"bias": False}), or a non-dict value
LogitKwargs == {"none", "nobias", "bad"}

\* max_seq_length is left at its default (None) unless the strategy reads it
HParamsSet ==
    {hp \in [num_classes        : 0..MaxClasses,
             clas_strategy      : Strategies,
             max_seq_length     : SeqLengths,
             logit_layer_kwargs : LogitKwargs,
             dim                : 1..MaxDim] :
        hp.clas_strategy # "all_time" => hp.max_seq_length = <<>>}

\* inputs: token ids of shape [batch_size, max_time] over the vocabulary
\* {0, 1}.  Pattern 0 gives every batch row the same tokens, pattern 1 makes
\* neighbouring rows differ.
Patterns == {0, 1}

Token(p, b, t) == (p * b + t) % 2

InputOf(B, T, p) ==
    [shape |-> <<B, T>>,
     data  |-> [k \in 1..(B * T) |->
                  Token(p, ((k - 1) \div T) + 1, ((k - 1) % T) + 1)]]

InputSet ==
    {InputOf(B, T, p) : B \in 1..MaxBatch, T \in 1..MaxTime, p \in Patterns}

\* ---- __init__ ----
NoLayer ==
    [present |-> FALSE, in_features |-> 0, out_features |-> 0,
     seed |-> 0, bias |-> FALSE]

NewLinear(nin, nout, kwargs, seed) ==
    [present |-> TRUE, in_features |-> nin, out_features |-> nout,
     seed |-> seed, bias |-> (kwargs # "nobias")]

\* mutant of IsBinary: the encoder dimension is not looked at
IsBinaryNumClassesOnly(hp) == hp.num_classes = 1

IsBinary(hp) ==
    (hp.num_classes = 1) \/ (hp.num_classes <= 0 /\ hp.dim = 1)

\* mutant of ConstructResult: an unset max_seq_length counts as length 1
ConstructResultUnsetAsOne(hp, seed) ==
    IF hp.num_classes <= 0
    THEN [status |-> "ok", layer |-> NoLayer]
    ELSE IF hp.logit_layer_kwargs = "bad"
    THEN [status |-> "ValueError", layer |-> NoLayer]
    ELSE IF hp.clas_strategy = "all_time" /\ hp.max_seq_length # <<>>
    THEN [status |-> "ok",
          layer  |-> NewLinear(EncoderOutputSize(hp) * hp.max_seq_length[1],
                               hp.num_classes, hp.logit_layer_kwargs, seed)]
    ELSE [status |-> "ok",
          layer  |-> NewLinear(EncoderOutputSize(hp), hp.num_classes,
                               hp.logit_layer_kwargs, seed)]

\* the outcome of the constructor: the error it raises, or the logits layer
ConstructResult(hp, seed) ==
    IF hp.num_classes <= 0
    THEN [status |-> "ok", layer |-> NoLayer]
    ELSE IF hp.logit_layer_kwargs = "bad"
    THEN [status |-> "ValueError", layer |-> NoLayer]
    ELSE IF hp.clas_strategy = "all_time"
    THEN IF hp.max_seq_length = <<>>
         THEN [status |-> "TypeError", layer |-> NoLayer]
         ELSE [status |-> "ok",
               layer  |-> NewLinear(EncoderOutputSize(hp) * hp.max_seq_length[1],
                                    hp.num_classes, hp.logit_layer_kwargs, seed)]
    ELSE [status |-> "ok",
          layer  |-> NewLinear(EncoderOutputSize(hp), hp.num_classes,
                               hp.logit_layer_kwargs, seed)]

\* ---- forward ----
NoForward ==
    [op |-> "none", status |-> "none", inputs |-> NoTensor, training |-> FALSE,
     source |-> NoTensor, logits |-> NoTensor, preds |-> NoTensor,
     repeated |-> FALSE]

\* mutant of SelectSource: an unknown strategy falls back to cls_time
SelectSourceFallback(hp, inputs) ==
    LET enc      == Encode(hp, inputs)
        strategy == hp.clas_strategy
    IN  IF strategy = "time_wise"
        THEN [status |-> "ok", logits |-> enc.enc_outputs]
        ELSE IF strategy = "all_time"
        THEN IF hp.max_seq_length = <<>>
             THEN [status |-> "TypeError", logits |-> NoTensor]
             ELSE LET length_diff == hp.max_seq_length[1] - inputs.shape[2]
                      logit_input == PadTime(enc.enc_outputs, length_diff)
                      logit_input_dim ==
                          EncoderOutputSize(hp) * hp.max_seq_length[1]
                  IN  [status |-> "ok",
                       logits |-> View(logit_input, logit_input_dim)]
        ELSE [status |-> "ok", logits |-> enc.pooled_output]

\* "Compute logits": the representation the strategy selects
SelectSource(hp, inputs) ==
    LET enc      == Encode(hp, inputs)
        strategy == hp.clas_strategy
    IN  IF strategy = "time_wise"
        THEN [status |-> "ok", logits |-> enc.enc_outputs]
        ELSE IF strategy = "cls_time"
        THEN [status |-> "ok", logits |-> enc.pooled_output]
        ELSE IF strategy = "all_time"
        THEN IF hp.max_seq_length = <<>>
             THEN [status |-> "TypeError", logits |-> NoTensor]
             ELSE LET length_diff == hp.max_seq_length[1] - inputs.shape[2]
                      logit_input == PadTime(enc.enc_outputs, length_diff)
                      logit_input_dim ==
                          EncoderOutputSize(hp) * hp.max_seq_length[1]
                  IN  [status |-> "ok",
                       logits |-> View(logit_input, logit_input_dim)]
        ELSE [status |-> "ValueError", logits |-> NoTensor]

\* dropout, then the logits layer, when there is one
Project(layer, mask, logits) ==
    IF layer.present
    THEN Linear(Dropout(logits, mask), layer)
    ELSE logits

\* "Compute predictions"
Predict(hp, isbin, logits) ==
    IF hp.clas_strategy = "time_wise"
    THEN IF isbin
         THEN [logits |-> Squeeze(logits),
               preds  |-> GreaterThanZero(Squeeze(logits))]
         ELSE [logits |-> logits, preds |-> Argmax(logits)]
    ELSE IF isbin
         THEN [logits |-> Flatten(logits),
               preds  |-> Flatten(GreaterThanZero(logits))]
         ELSE [logits |-> logits, preds |-> Flatten(Argmax(logits))]

ForwardResult(hp, layer, isbin, inputs, mask) ==
    LET sel == SelectSource(hp, inputs)
    IN  IF sel.status # "ok"
        THEN [status |-> sel.status, source |-> NoTensor,
              logits |-> NoTensor, preds |-> NoTensor]
        ELSE LET out == Predict(hp, isbin,
                                Project(layer, mask, sel.logits))
             IN  [status |-> "ok", source |-> sel.logits,
                  logits |-> out.logits, preds |-> out.preds]

\* ---- output_size ----
NoQuery == [op |-> "none", status |-> "none", value |-> 0]

OutputSizeResult(hp) ==
    IF hp.num_classes < 1
    THEN [status |-> "NameError", value |-> 0]
    ELSE IF hp.clas_strategy \in {"cls_time", "all_time", "time_wise"}
    THEN [status |-> "ok", value |-> IF hp.num_classes > 1
                                     THEN hp.num_classes ELSE 1]
    ELSE [status |-> "UnboundLocalError", value |-> 0]

\* ---- the state machine ----
Init ==
    /\ hparams \in HParamsSet
    /\ built = "new"
    /\ logits_layer = NoLayer
    /\ is_binary = FALSE
    /\ training = TRUE
    /\ fwd = NoForward
    /\ query = NoQuery

\* BERTClassifier(hparams=hparams)
Construct ==
    /\ built = "new"
    /\ \E seed \in Seeds :
          LET res == ConstructResult(hparams, seed)
          IN  /\ built' = IF res.status = "ok" THEN "ready" ELSE res.status
              /\ logits_layer' = res.layer
              /\ is_binary' = IF res.status = "ok" THEN IsBinary(hparams)
                                                   ELSE FALSE
    /\ UNCHANGED <<hparams, training, fwd, query>>

\* classifier(inputs)
Forward ==
    /\ built = "ready"
    /\ \E inputs \in InputSet :
       \E mask \in IF logits_layer.present THEN DropoutMasks(training) ELSE {0} :
       \E res \in {ForwardResult(hparams, logits_layer, is_binary,
                                 inputs, mask)} :
          fwd' = [op |-> "forward", status |-> res.status,
                  inputs |-> inputs, training |-> training,
                  source |-> res.source, logits |-> res.logits,
                  preds |-> res.preds,
                  repeated |-> (fwd.op = "forward" /\ fwd.inputs = inputs)]
    /\ UNCHANGED <<hparams, built, logits_layer, is_binary, training, query>>

\* classifier.output_size
OutputSize ==
    /\ built = "ready"
    /\ LET res == OutputSizeResult(hparams)
       IN  query' = [op |-> "output_size", status |-> res.status,
                     value |-> res.value]
    /\ UNCHANGED <<hparams, built, logits_layer, is_binary, training, fwd>>

\* classifier.train()
Train ==
    /\ built = "ready"
    /\ training' = TRUE
    /\ UNCHANGED <<hparams, built, logits_layer, is_binary, fwd, query>>

\* classifier.eval()
Eval ==
    /\ built = "ready"
    /\ training' = FALSE
    /\ UNCHANGED <<hparams, built, logits_layer, is_binary, fwd, query>>

Next == Construct \/ Forward \/ OutputSize \/ Train \/ Eval

Spec == Init /\ [][Next]_vars

\* ---- the claims ----
Strategy == hparams.clas_strategy

NumClasses == hparams.num_classes

Returned == fwd.op = "forward" /\ fwd.status = "ok"

BatchSize == fwd.inputs.shape[1]

MaxTimeIn == fwd.inputs.shape[2]

\* the configuration is binary, as the claims define it
BinaryConfig == NumClasses = 1 \/ (NumClasses <= 0 /\ hparams.dim = 1)

Threshold(v) == IF v > 0 THEN 1 ELSE 0

\* row r (of width n) of the logits has a maximum at the 0-based index p
IsRowMax(data, r, n, p) ==
    /\ p \in 0..(n - 1)
    /\ \A c \in 1..n : data[(r - 1) * n + c] <= data[(r - 1) * n + p + 1]

\* C1: in a binary configuration under cls_time or all_time, forward returns
\* logits and predictions of shape [B], and prediction b is 1 if logit b is
\* greater than 0 and 0 otherwise.
C1_BinarySequenceLevel ==
    (Returned /\ BinaryConfig /\ Strategy \in {"cls_time", "all_time"}) =>
        /\ fwd.logits.shape = <<BatchSize>>
        /\ fwd.preds.shape = <<BatchSize>>
        /\ \A b \in 1..BatchSize :
              fwd.preds.data[b] = Threshold(fwd.logits.data[b])

\* C2: with num_classes > 1 under cls_time or all_time, forward returns logits
\* of shape [B, num_classes] and predictions of shape [B], prediction b being
\* the index (in 0..num_classes-1) of the maximum logit of row b.
C2_MulticlassSequenceLevel ==
    (Returned /\ NumClasses > 1 /\ Strategy \in {"cls_time", "all_time"}) =>
        /\ fwd.logits.shape = <<BatchSize, NumClasses>>
        /\ fwd.preds.shape = <<BatchSize>>
        /\ Len(fwd.preds.data) = BatchSize
        /\ \A b \in 1..BatchSize :
              IsRowMax(fwd.logits.data, b, NumClasses, fwd.preds.data[b])

C2_Witness ==
    /\ Returned
    /\ NumClasses > 1
    /\ Strategy = "all_time"
    /\ BatchSize = 2
    /\ fwd.preds.data[1] # fwd.preds.data[2]

\* C3: under time_wise the predictions always have shape [B, T]; with
\* num_classes > 1 the logits have shape [B, T, num_classes] and prediction
\* (b, t) is the argmax over the class axis; in a binary configuration the
\* logits are squeezed to [B, T] and prediction (b, t) is 1 iff logit (b, t)
\* is greater than 0.
C3_TimeWise ==
    (Returned /\ Strategy = "time_wise") =>
        LET B == BatchSize
            T == MaxTimeIn
        IN  /\ fwd.preds.shape = <<B, T>>
            /\ Len(fwd.preds.data) = B * T
            /\ NumClasses > 1 =>
                  /\ fwd.logits.shape = <<B, T, NumClasses>>
                  /\ \A r \in 1..(B * T) :
                        IsRowMax(fwd.logits.data, r, NumClasses,
                                 fwd.preds.data[r])
            /\ BinaryConfig =>
                  /\ fwd.logits.shape = <<B, T>>
                  /\ Len(fwd.logits.data) = B * T
                  /\ \A r \in 1..(B * T) :
                        fwd.preds.data[r] = Threshold(fwd.logits.data[r])

C3_Witness ==
    /\ Returned
    /\ Strategy = "time_wise"
    /\ BinaryConfig
    /\ BatchSize = 2
    /\ MaxTimeIn = 2
    /\ \E r, q \in 1..4 : fwd.preds.data[r] = 1 /\ fwd.preds.data[q] = 0

\* C4: under all_time with T <= max_seq_length, the flattened input of the
\* projection has shape [B, F x max_seq_length]; row b is the per-token
\* outputs of row b in time order followed by (max_seq_length - T) x F
\* zeros; with max_seq_length = T it is the per-token outputs, flattened.
C4_AllTimePadding ==
    (Returned /\ Strategy = "all_time"
              /\ MaxTimeIn <= hparams.max_seq_length[1]) =>
        LET B   == BatchSize
            T   == MaxTimeIn
            F   == hparams.dim
            M   == hparams.max_seq_length[1]
            enc == Encode(hparams, fwd.inputs).enc_outputs
        IN  /\ fwd.source.shape = <<B, F * M>>
            /\ Len(fwd.source.data) = B * F * M
            /\ \A b \in 1..B : \A i \in 1..(F * M) :
                  fwd.source.data[(b - 1) * F * M + i] =
                     IF i <= T * F THEN enc.data[(b - 1) * T * F + i] ELSE 0
            /\ M = T => fwd.source.data = enc.data

C4_Witness ==
    /\ Returned
    /\ Strategy = "all_time"
    /\ BatchSize = 2
    /\ MaxTimeIn = 1
    /\ hparams.max_seq_length = <<2>>
    /\ hparams.dim = 2
    /\ fwd.source.data[1] # 0
    /\ fwd.source.data[5] # fwd.source.data[1]

\* C5: output_size raises an error when num_classes < 1 and returns
\* num_classes when num_classes >= 1, whatever the strategy.
C5_OutputSize ==
    (query.op = "output_size") =>
        /\ NumClasses < 1 => query.status # "ok"
        /\ NumClasses >= 1 => (query.status = "ok" /\ query.value = NumClasses)

KnownStrategies == {"cls_time", "all_time", "time_wise"}

\* C6: an unrecognized clas_strategy is not rejected at construction (with
\* an otherwise valid configuration construction succeeds, for every
\* num_classes), and every forward call on such an instance raises the
\* unknown-strategy ValueError and returns no logits and no predictions.
C6_UnknownStrategy ==
    (Strategy \notin KnownStrategies) =>
        /\ (built # "new" /\ hparams.logit_layer_kwargs # "bad")
              => built = "ready"
        /\ (built \notin {"new", "ready"}) => built = "ValueError"
        /\ fwd.op = "forward" =>
              /\ fwd.status = "ValueError"
              /\ fwd.logits = NoTensor
              /\ fwd.preds = NoTensor

C6_Witness ==
    /\ Strategy \notin KnownStrategies
    /\ built = "ready"
    /\ NumClasses > 1
    /\ fwd.op = "forward"
    /\ fwd.status = "ValueError"

\* C7: all_time without max_seq_length fails at construction, for every
\* num_classes, and no such instance reaches a forward call.
C7_AllTimeNeedsMaxSeqLength ==
    (Strategy = "all_time" /\ hparams.max_seq_length = <<>>) =>
        /\ built # "ready"
        /\ fwd.op = "none"

\* C7, amended: all_time without max_seq_length fails at construction when
\* num_classes > 0 (with the TypeError of the dimension computation, unless
\* logit_layer_kwargs is rejected first), and no such instance reaches a
\* forward call; with num_classes <= 0 no projection is built, construction
\* succeeds, and every forward call fails at the pad-length computation.
C7_AllTimeNeedsMaxSeqLengthWithProjection ==
    (Strategy = "all_time" /\ hparams.max_seq_length = <<>>) =>
        /\ NumClasses > 0 =>
              /\ built \in {"new", "TypeError", "ValueError"}
              /\ built = "ValueError" => hparams.logit_layer_kwargs = "bad"
              /\ built = "TypeError" => hparams.logit_layer_kwargs # "bad"
              /\ fwd.op = "none"
        /\ NumClasses <= 0 =>
              /\ built \in {"new", "ready"}
              /\ fwd.op = "forward" =>
                    (fwd.status = "TypeError" /\ fwd.logits = NoTensor
                                              /\ fwd.preds = NoTensor)

C7_Witness ==
    /\ Strategy = "all_time"
    /\ hparams.max_seq_length = <<>>
    /\ NumClasses > 0
    /\ built = "TypeError"

\* C8: is_binary is true iff num_classes == 1, or num_classes <= 0 and the
\* encoder's feature dimension is 1; once set at construction it keeps its
\* value across every forward and output_size call, failing calls included.
C8_IsBinaryFixed ==
    /\ [](built = "ready" => (is_binary <=> BinaryConfig))
    /\ [][built = "ready" => is_binary' = is_binary]_vars

C8_Witness ==
    /\ built = "ready"
    /\ is_binary
    /\ NumClasses <= 0
    /\ fwd.op = "forward"
    /\ fwd.status = "TypeError"
    /\ query.status = "NameError"

\* C9: under all_time, a forward call whose time length T exceeds
\* max_seq_length fails and returns no logits and no predictions.
C9_TooLongIsAnError ==
    (fwd.op = "forward" /\ Strategy = "all_time"
        /\ hparams.max_seq_length # <<>>
        /\ MaxTimeIn > hparams.max_seq_length[1]) =>
        /\ fwd.status # "ok"
        /\ fwd.logits = NoTensor
        /\ fwd.preds = NoTensor

\* a step is a forward call that returns, on the inputs of the previous
\* forward call, which returned too
RepeatedForward ==
    /\ Returned
    /\ fwd'.status = "ok"
    /\ fwd'.repeated
    /\ fwd'.inputs = fwd.inputs

SameOutputs == fwd'.logits = fwd.logits /\ fwd'.preds = fwd.preds

\* C10: after any sequence of forward and output_size calls, two forward
\* calls on identical inputs return identical logits and predictions, also
\* when a projection exists and dropout is applied before it.
C10_Deterministic == [][RepeatedForward => SameOutputs]_vars

\* C10, amended: two forward calls on identical inputs return identical
\* logits and predictions when both are made in evaluation mode; in
\* training mode (the mode after construction) the dropout applied before
\* the projection draws a fresh random mask in every call.
C10_DeterministicInEvalMode ==
    [][(RepeatedForward /\ ~fwd.training /\ ~fwd'.training)
       => SameOutputs]_vars

C10_Witness ==
    /\ Returned
    /\ fwd.repeated
    /\ ~fwd.training
    /\ logits_layer.present
    /\ query.op = "output_size"
====
